---- MODULE Spec2Model ----
(***************************************************************************)
(* Model of src/parse/combinators.rs: the ParserKind/Parser tree, its      *)
(* builder API and the recursive evaluation Parser::parse.                 *)
(*                                                                         *)
(* A Rust String is modelled as the sequence of its UTF-8 bytes, one byte  *)
(* per element (ASCII bytes are written as themselves, the two bytes of    *)
(* U+00E9 as "C3" and "A9"), because parse slices strings by byte length.  *)
(***************************************************************************)
EXTENDS Integers, Sequences, FiniteSets, TLC

VARIABLES
    parser,     \* the Parser value built so far (NoParser before any factory call)
    src,        \* the argument of the last call of parse
    result,     \* what that call produced (NoResult when parse was not called)
    overflow_checks  \* the build: TRUE checks integer overflow (debug), FALSE wraps

vars == <<parser, src, result, overflow_checks>>

----------------------------------------------------------------------------
(* Bounds of the model *)

\* Largest height of a parser that a combinator method is still called on.
MaxDepth == 1
\* Largest num_repeats, range.start and range.end handed to the builder.
MaxRepeat == 2
\* Largest number of leading "x" of an input string.
MaxRun == 3

\* Width of usize in bits.  It is target dependent; the narrowest standard
\* width is taken so that the wrapped difference stays a small integer.
USIZE_BITS == 16

----------------------------------------------------------------------------
(* Strings *)

\* The second byte of the two-byte character: a UTF-8 continuation byte.
ContinuationBytes == {"A9"}

EAcute == <<"C3", "A9">>

Take(s, n) == SubSeq(s, 1, n)

Drop(s, n) == SubSeq(s, n + 1, Len(s))

\* str::is_char_boundary, which the slicing s[..n] and s[n..] asserts.
IsCharBoundary(s, i) ==
    \/ i = 0
    \/ i = Len(s)
    \/ i < Len(s) /\ s[i + 1] \notin ContinuationBytes

RECURSIVE Copies(_, _)
Copies(x, n) == IF n = 0 THEN <<>> ELSE <<x>> \o Copies(x, n - 1)

IsPrefix(p, s) == Len(p) <= Len(s) /\ Take(s, Len(p)) = p

IsSuffix(t, s) == Len(t) <= Len(s) /\ Drop(s, Len(s) - Len(t)) = t

IsSubstring(t, s) ==
    \E i \in 0..(Len(s) - Len(t)) : SubSeq(s, i + 1, i + Len(t)) = t

----------------------------------------------------------------------------
(* Outcomes of parse: Ok((matched, rest)), Err(rest), or a panic that       *)
(* unwinds out of the call.  calls lists the applications of Map closures   *)
(* made during the evaluation, in order (the closure's observable effect).  *)

Ok(matched, rest, calls) ==
    [tag |-> "Ok", matched |-> matched, rest |-> rest, msg |-> <<>>, calls |-> calls]

Err(rest, calls) ==
    [tag |-> "Err", matched |-> <<>>, rest |-> rest, msg |-> <<>>, calls |-> calls]

Panic(msg, calls) ==
    [tag |-> "Panic", matched |-> <<>>, rest |-> <<>>, msg |-> msg, calls |-> calls]

\* The same outcome, with the closure applications made before it in front.
After(calls, res) == [res EXCEPT !.calls = calls \o res.calls]

CharBoundaryMsg == <<"byte index is not a char boundary">>

SubOverflowMsg == <<"attempt to subtract with overflow">>

CapacityMsg == <<"capacity overflow">>

NoParser == [kind |-> "None"]

NoResult == [tag |-> "None"]

----------------------------------------------------------------------------
(* External collaborators: ron::to_string on Vec<String>, Regex::find and   *)
(* the closures handed to map.                                              *)

\* ron writes a string between double quotes, escaping '"' and '\'.
RECURSIVE RonEscape(_)
RonEscape(s) ==
    IF s = <<>> THEN <<>>
    ELSE (IF Head(s) \in {"\"", "\\"} THEN <<"\\", Head(s)>> ELSE <<Head(s)>>)
         \o RonEscape(Tail(s))

RECURSIVE RonElements(_)
RonElements(v) ==
    IF v = <<>> THEN <<>>
    ELSE <<"\"">> \o RonEscape(Head(v)) \o <<"\"">>
         \o (IF Len(v) > 1 THEN <<",">> ELSE <<>>) \o RonElements(Tail(v))

\* to_string(&matched).unwrap() for matched : Vec<String>.
to_string(v) == <<"[">> \o RonElements(v) \o <<"]">>

\* Number of bytes equal to ch at the front of s.
RECURSIVE RunLength(_, _)
RunLength(s, ch) ==
    IF s # <<>> /\ Head(s) = ch THEN 1 + RunLength(Tail(s), ch) ELSE 0

\* Regex::find for the patterns "x+" and "x*" (one ASCII character under a
\* greedy repetition): the leftmost match, as byte offsets [start, end).
ReFind(re, s) ==
    LET ch     == re[1]
        least  == IF re[2] = "+" THEN 1 ELSE 0
        starts == {i \in 0..Len(s) : RunLength(Drop(s, i), ch) >= least}
    IN  IF starts = {} THEN [found |-> FALSE, start |-> 0, end |-> 0]
        ELSE LET first == CHOOSE i \in starts : \A j \in starts : i <= j
             IN  [found |-> TRUE, start |-> first,
                  end |-> first + RunLength(Drop(s, first), ch)]

\* The closures of the model: Fn(String) -> Result<String, ron::Error>.
\* "x_to_z" replaces the text "x" by "z" and reports an error on anything else;
\* "append_z" always succeeds.
MapFns == {"x_to_z", "append_z"}

Apply(cfn, matched) ==
    IF cfn = "x_to_z"
    THEN IF matched = <<"x">> THEN [ok |-> TRUE, value |-> <<"z">>]
         ELSE [ok |-> FALSE, value |-> <<>>]
    ELSE [ok |-> TRUE, value |-> matched \o <<"z">>]

----------------------------------------------------------------------------
(* The builder API *)

Node(kind, text, before, num_repeats, range, cfn, subparsers) ==
    [kind |-> kind, text |-> text, before |-> before, num_repeats |-> num_repeats,
     range |-> range, cfn |-> cfn, subparsers |-> subparsers]

NoRange == [start |-> 0, end |-> 0]

literal(s) == Node("Literal", s, FALSE, 0, NoRange, "", <<>>)

regex(s) == Node("Regex", s, FALSE, 0, NoRange, "", <<>>)

constant(s) == Node("Constant", s, FALSE, 0, NoRange, "", <<>>)

error(s) == Node("Error", s, FALSE, 0, NoRange, "", <<>>)

and(self, r) == Node("And", <<>>, FALSE, 0, NoRange, "", <<self, r>>)

ignore_before(self, r) == Node("Ignore", <<>>, TRUE, 0, NoRange, "", <<self, r>>)

ignore_after(self, r) == Node("Ignore", <<>>, FALSE, 0, NoRange, "", <<self, r>>)

or(self, r) == Node("Or", <<>>, FALSE, 0, NoRange, "", <<self, r>>)

repeat(self, num_repeats) ==
    Node("Repeat", <<>>, FALSE, num_repeats, NoRange, "", <<self>>)

repeat_range(self, num_repeats) ==
    Node("RepeatRange", <<>>, FALSE, 0, num_repeats, "", <<self>>)

optional(self) ==
    Node("RepeatRange", <<>>, FALSE, 0, [start |-> 0, end |-> 1], "", <<self>>)

map(self, cfn) == Node("Map", <<>>, FALSE, 0, NoRange, cfn, <<self>>)

----------------------------------------------------------------------------
(* Parser::parse *)

\* Vec<String> cannot hold more than isize::MAX bytes of String headers
\* (three words each); a push beyond that panics.
VecMaxLen == (2 ^ (USIZE_BITS - 1) - 1) \div (3 * (USIZE_BITS \div 8))

\* range.end - range.start in usize: a panic when the build checks overflow,
\* the difference modulo 2^USIZE_BITS when it does not.
WrappingSub(a, b) == IF a >= b THEN a - b ELSE 2 ^ USIZE_BITS - (b - a)

RECURSIVE parse(_, _, _)
RECURSIVE MandatoryLoop(_, _, _, _, _, _)
RECURSIVE OptionalLoop(_, _, _, _, _, _)

parse_Literal(self, s, oc) ==
    LET n == Len(self.text)
    IN  IF Len(s) >= n
        THEN IF ~IsCharBoundary(s, n) THEN Panic(CharBoundaryMsg, <<>>)
             ELSE IF Take(s, n) = self.text
                  THEN Ok(Take(s, n), Drop(s, n), <<>>)
                  ELSE Err(s, <<>>)
        ELSE Err(s, <<>>)

parse_Regex(self, s, oc) ==
    LET mat == ReFind(self.text, s)
    IN  IF mat.found
        THEN IF mat.start = 0
             THEN Ok(SubSeq(s, mat.start + 1, mat.end), Drop(s, mat.end), <<>>)
             ELSE Err(s, <<>>)
        ELSE Err(s, <<>>)

parse_Constant(self, s, oc) == Ok(self.text, s, <<>>)

parse_And(self, s, oc) ==
    LET l == parse(self.subparsers[1], s, oc)
    IN  IF l.tag # "Ok" THEN l
        ELSE LET r == parse(self.subparsers[2], l.rest, oc)
             IN  IF r.tag # "Ok" THEN After(l.calls, r)
                 ELSE Ok(to_string(<<l.matched, r.matched>>), r.rest,
                         l.calls \o r.calls)

\* Variant: Skip-before keeps the text of the operand it should discard.
parse_Ignore_keeps_left(self, s, oc) ==
    LET l == parse(self.subparsers[1], s, oc)
    IN  IF l.tag # "Ok" THEN l
        ELSE LET r == parse(self.subparsers[2], l.rest, oc)
             IN  IF r.tag # "Ok" THEN After(l.calls, r)
                 ELSE Ok(l.matched, r.rest, l.calls \o r.calls)

parse_Ignore(self, s, oc) ==
    LET l == parse(self.subparsers[1], s, oc)
    IN  IF l.tag # "Ok" THEN l
        ELSE LET r == parse(self.subparsers[2], l.rest, oc)
             IN  IF self.before THEN After(l.calls, r)
                 ELSE IF r.tag # "Ok" THEN After(l.calls, r)
                      ELSE Ok(l.matched, r.rest, l.calls \o r.calls)

\* Variant: the right branch starts where the failed left branch stopped.
parse_Or_leaky(self, s, oc) ==
    LET l == parse(self.subparsers[1], s, oc)
    IN  IF l.tag = "Ok" THEN l
        ELSE IF l.tag = "Panic" THEN l
        ELSE After(l.calls, parse(self.subparsers[2], l.rest, oc))

\* Variant: a panic of the left branch is caught like a match failure.
parse_Or_catches(self, s, oc) ==
    LET l == parse(self.subparsers[1], s, oc)
    IN  IF l.tag = "Ok" THEN l
        ELSE After(l.calls, parse(self.subparsers[2], s, oc))

parse_Or(self, s, oc) ==
    LET l == parse(self.subparsers[1], s, oc)
    IN  IF l.tag = "Ok" THEN l
        ELSE IF l.tag = "Panic" THEN l
        ELSE After(l.calls, parse(self.subparsers[2], s, oc))

\* for _ in 0..n { let (m, r) = self.subparsers[0].parse(rest)?; ... }
\* The loop's outcome carries the vector matched in place of a string.
MandatoryLoop(op, rest, matched, calls, n, oc) ==
    IF n = 0 THEN Ok(matched, rest, calls)
    ELSE LET res == parse(op, rest, oc)
         IN  IF res.tag # "Ok" THEN After(calls, res)
             ELSE MandatoryLoop(op, res.rest, Append(matched, res.matched),
                                calls \o res.calls, n - 1, oc)

\* for _ in 0..n { ... if let Err(r) = parse_result { rest = r; break; } ... }
\* An application that succeeds and leaves rest as it was succeeds the same
\* way in every later iteration (parse depends on the node and rest alone);
\* when the iterations left then exceed what the vector can hold, the push
\* that exceeds it panics.
OptionalLoop(op, rest, matched, calls, n, oc) ==
    IF n = 0 THEN Ok(matched, rest, calls)
    ELSE LET res == parse(op, rest, oc)
         IN  IF res.tag = "Panic" THEN After(calls, res)
             ELSE IF res.tag = "Err" THEN Ok(matched, res.rest, calls \o res.calls)
             ELSE IF res.rest = rest /\ Len(matched) + n > VecMaxLen
                  THEN Panic(CapacityMsg, calls \o res.calls)
                  ELSE OptionalLoop(op, res.rest, Append(matched, res.matched),
                                    calls \o res.calls, n - 1, oc)

\* Variant: an aborted repetition reports the input it started from.
parse_Repeat_rewinds(self, s, oc) ==
    LET done == MandatoryLoop(self.subparsers[1], s, <<>>, <<>>, self.num_repeats, oc)
    IN  IF done.tag = "Err" THEN Err(s, done.calls)
        ELSE IF done.tag # "Ok" THEN done
        ELSE Ok(to_string(done.matched), done.rest, done.calls)

parse_Repeat(self, s, oc) ==
    LET done == MandatoryLoop(self.subparsers[1], s, <<>>, <<>>, self.num_repeats, oc)
    IN  IF done.tag # "Ok" THEN done
        ELSE Ok(to_string(done.matched), done.rest, done.calls)

\* Variant: one optional repetition too many.
parse_RepeatRange_one_more(self, s, oc) ==
    LET range == self.range
        first == MandatoryLoop(self.subparsers[1], s, <<>>, <<>>, range.start, oc)
    IN  IF first.tag # "Ok" THEN first
        ELSE IF range.end < range.start /\ oc THEN Panic(SubOverflowMsg, first.calls)
        ELSE LET done == OptionalLoop(self.subparsers[1], first.rest, first.matched,
                                      first.calls,
                                      WrappingSub(range.end, range.start) + 1, oc)
             IN  IF done.tag # "Ok" THEN done
                 ELSE Ok(to_string(done.matched), done.rest, done.calls)

parse_RepeatRange(self, s, oc) ==
    LET range == self.range
        first == MandatoryLoop(self.subparsers[1], s, <<>>, <<>>, range.start, oc)
    IN  IF first.tag # "Ok" THEN first
        ELSE IF range.end < range.start /\ oc THEN Panic(SubOverflowMsg, first.calls)
        ELSE LET done == OptionalLoop(self.subparsers[1], first.rest, first.matched,
                                      first.calls, WrappingSub(range.end, range.start),
                                      oc)
             IN  IF done.tag # "Ok" THEN done
                 ELSE Ok(to_string(done.matched), done.rest, done.calls)

parse_Error(self, s, oc) == Panic(self.text, <<>>)

\* Variant: a failing closure makes the node fail with the original input.
parse_Map_rewinds(self, s, oc) ==
    LET res == parse(self.subparsers[1], s, oc)
    IN  IF res.tag # "Ok" THEN res
        ELSE LET applied == Apply(self.cfn, res.matched)
                 calls   == Append(res.calls, <<self.cfn, res.matched>>)
             IN  IF applied.ok THEN Ok(applied.value, res.rest, calls)
                 ELSE Err(s, calls)

\* Variant: a failing closure makes the node fail with the matched text.
parse_Map_returns_matched(self, s, oc) ==
    LET res == parse(self.subparsers[1], s, oc)
    IN  IF res.tag # "Ok" THEN res
        ELSE LET applied == Apply(self.cfn, res.matched)
                 calls   == Append(res.calls, <<self.cfn, res.matched>>)
             IN  IF applied.ok THEN Ok(applied.value, res.rest, calls)
                 ELSE Err(res.matched, calls)

parse_Map(self, s, oc) ==
    LET res == parse(self.subparsers[1], s, oc)
    IN  IF res.tag # "Ok" THEN res
        ELSE LET applied == Apply(self.cfn, res.matched)
                 calls   == Append(res.calls, <<self.cfn, res.matched>>)
             IN  IF applied.ok THEN Ok(applied.value, res.rest, calls)
                 ELSE Err(res.rest, calls)

\* oc: whether the build checks integer overflow (debug) or wraps (release).
parse(self, s, oc) ==
    CASE self.kind = "Literal"     -> parse_Literal(self, s, oc)
      [] self.kind = "Regex"       -> parse_Regex(self, s, oc)
      [] self.kind = "Constant"    -> parse_Constant(self, s, oc)
      [] self.kind = "And"         -> parse_And(self, s, oc)
      [] self.kind = "Ignore"      -> parse_Ignore(self, s, oc)
      [] self.kind = "Or"          -> parse_Or(self, s, oc)
      [] self.kind = "Repeat"      -> parse_Repeat(self, s, oc)
      [] self.kind = "RepeatRange" -> parse_RepeatRange(self, s, oc)
      [] self.kind = "Error"       -> parse_Error(self, s, oc)
      [] self.kind = "Map"         -> parse_Map(self, s, oc)

----------------------------------------------------------------------------
(* Inputs of the model *)

Literals == {<<"x">>, <<"x", "y">>}

Patterns == {<<"x", "+">>}

Constants == {<<"c">>}

Messages == {<<"e">>, <<"f">>}

Leaves ==
    {literal(s) : s \in Literals} \cup {regex(s) : s \in Patterns}
    \cup {constant(s) : s \in Constants} \cup {error(s) : s \in Messages}

\* The parsers that and, ignore_before, ignore_after and or combine the
\* parser under construction with.
Operands == Leaves \cup {map(literal(s), cfn) : s \in Literals, cfn \in MapFns}

Ranges == [start : 0..MaxRepeat, end : 0..MaxRepeat]

Tails == {<<>>, <<"y">>, EAcute, <<"y", "x">>}

Inputs == {Copies("x", k) \o t : k \in 0..MaxRun, t \in Tails}

RECURSIVE Height(_)
Height(p) ==
    IF p.subparsers = <<>> THEN 0
    ELSE LET hs == {Height(p.subparsers[i]) : i \in 1..Len(p.subparsers)}
         IN  1 + CHOOSE h \in hs : \A g \in hs : g <= h

----------------------------------------------------------------------------
(* The state machine: a caller builds a tree and evaluates it. *)

Init ==
    /\ parser = NoParser
    /\ src = <<>>
    /\ result = NoResult
    /\ overflow_checks \in BOOLEAN

Build(p) ==
    /\ parser' = p
    /\ src' = <<>>
    /\ result' = NoResult
    /\ UNCHANGED overflow_checks

CanChain == parser # NoParser /\ Height(parser) < MaxDepth

NewLiteral == \E s \in Literals : parser = NoParser /\ Build(literal(s))

NewRegex == \E s \in Patterns : parser = NoParser /\ Build(regex(s))

NewConstant == \E s \in Constants : parser = NoParser /\ Build(constant(s))

NewError == \E s \in Messages : parser = NoParser /\ Build(error(s))

\* parser.and(r) or r.and(parser), and likewise for the other binary methods.
ChainAnd ==
    \E r \in Operands :
        CanChain /\ (Build(and(parser, r)) \/ Build(and(r, parser)))

ChainIgnoreBefore ==
    \E r \in Operands :
        CanChain /\ (Build(ignore_before(parser, r)) \/ Build(ignore_before(r, parser)))

ChainIgnoreAfter ==
    \E r \in Operands :
        CanChain /\ (Build(ignore_after(parser, r)) \/ Build(ignore_after(r, parser)))

ChainOr ==
    \E r \in Operands :
        CanChain /\ (Build(or(parser, r)) \/ Build(or(r, parser)))

ChainRepeat == \E n \in 0..MaxRepeat : CanChain /\ Build(repeat(parser, n))

ChainRepeatRange == \E range \in Ranges : CanChain /\ Build(repeat_range(parser, range))

ChainOptional == CanChain /\ Build(optional(parser))

ChainMap == \E cfn \in MapFns : CanChain /\ Build(map(parser, cfn))

CallParse ==
    \E s \in Inputs :
        /\ parser # NoParser
        /\ result = NoResult
        /\ src' = s
        /\ result' = parse(parser, s, overflow_checks)
        /\ UNCHANGED <<parser, overflow_checks>>

Next ==
    \/ NewLiteral
    \/ NewRegex
    \/ NewConstant
    \/ NewError
    \/ ChainAnd
    \/ ChainIgnoreBefore
    \/ ChainIgnoreAfter
    \/ ChainOr
    \/ ChainRepeat
    \/ ChainRepeatRange
    \/ ChainOptional
    \/ ChainMap
    \/ CallParse

Spec == Init /\ [][Next]_vars

----------------------------------------------------------------------------
(* Vocabulary of the properties *)

\* parse was called and result holds its outcome.
Called == result # NoResult

Returned == Called /\ result.tag \in {"Ok", "Err"}

Left == parser.subparsers[1]

Right == parser.subparsers[2]

\* The outcome of evaluating a subparser on s in the build of this run.
Sub(p, s) == parse(p, s, overflow_checks)

\* The same Result value (the closure applications aside).
SameResult(a, b) ==
    a.tag = b.tag /\ a.matched = b.matched /\ a.rest = b.rest /\ a.msg = b.msg

RECURSIVE HasError(_)
HasError(p) ==
    \/ p.kind = "Error"
    \/ \E i \in 1..Len(p.subparsers) : HasError(p.subparsers[i])

\* Number of strings in a ron list: every string contributes two quotes that
\* are not escaped.
RECURSIVE RonQuotes(_)
RonQuotes(s) ==
    IF s = <<>> THEN 0
    ELSE IF Head(s) = "\\" THEN RonQuotes(Tail(Tail(s)))
    ELSE IF Head(s) = "\"" THEN 1 + RonQuotes(Tail(s))
    ELSE RonQuotes(Tail(s))

RonLength(s) == RonQuotes(s) \div 2

----------------------------------------------------------------------------
(* Literal *)

\* C1 (as claimed): parse on Literal(L) succeeds iff src starts with L; on
\* success it returns (L, rest) with src = L ++ rest, on failure Err(src).
C1_LiteralPrefix ==
    (Called /\ parser.kind = "Literal") =>
        IF IsPrefix(parser.text, src)
        THEN /\ result.tag = "Ok"
             /\ result.matched = parser.text
             /\ src = parser.text \o result.rest
        ELSE /\ result.tag = "Err"
             /\ result.rest = src

----------------------------------------------------------------------------
(* Alternation *)

\* C2: Or(l, r) returns exactly l's outcome when l succeeds (no closure of r
\* is applied), and when l fails it returns r's outcome on the original src,
\* whatever remainder l's failure carried.
C2_OrLeftBiased ==
    (Called /\ parser.kind = "Or") =>
        LET l == Sub(Left, src)
            r == Sub(Right, src)
        IN  /\ l.tag = "Ok" => result = l
            /\ l.tag = "Err" =>
                   /\ SameResult(result, r)
                   /\ result.calls = l.calls \o r.calls

\* The left branch fails after consuming input and the right branch then
\* matches from the start of src.
C2_Witness ==
    /\ Called
    /\ parser.kind = "Or"
    /\ Sub(Left, src).tag = "Err"
    /\ Sub(Left, src).rest # src
    /\ result.tag = "Ok"
    /\ result.matched \o result.rest = src

----------------------------------------------------------------------------
(* Bounded repetition *)

Min(a, b) == IF a <= b THEN a ELSE b

\* C3 (as claimed): RepeatRange(0..n) over Literal("x"), on k copies of "x"
\* followed by a tail that does not start with "x", always succeeds with
\* exactly min(k, n) matches and src without those copies as remainder.
C3_GreedyBoundedRepeat ==
    ( /\ Called
      /\ parser.kind = "RepeatRange"
      /\ Left = literal(<<"x">>)
      /\ parser.range.start = 0 ) =>
        LET taken == Min(RunLength(src, "x"), parser.range.end)
        IN  /\ result.tag = "Ok"
            /\ result.matched = to_string(Copies(<<"x">>, taken))
            /\ result.rest = Drop(src, taken)

----------------------------------------------------------------------------
(* Transform *)

\* C4: Map(op, f) fails with op's failure, f not applied, when op fails;
\* succeeds with (f's replacement, op's remainder) when f returns one; and
\* fails with op's remainder, not src, when f reports a failure.
C4_MapFailure ==
    (Called /\ parser.kind = "Map") =>
        LET op == Sub(Left, src)
            f  == Apply(parser.cfn, op.matched)
        IN  /\ op.tag = "Err" => result = op
            /\ op.tag = "Ok" =>
                   result.calls = Append(op.calls, <<parser.cfn, op.matched>>)
            /\ (op.tag = "Ok" /\ f.ok) =>
                   /\ result.tag = "Ok"
                   /\ result.matched = f.value
                   /\ result.rest = op.rest
            /\ (op.tag = "Ok" /\ ~f.ok) =>
                   /\ result.tag = "Err"
                   /\ result.rest = op.rest

\* The closure rejects what the operand matched, after the operand consumed
\* input.
C4_Witness ==
    /\ Called
    /\ parser.kind = "Map"
    /\ Sub(Left, src).tag = "Ok"
    /\ ~Apply(parser.cfn, Sub(Left, src).matched).ok
    /\ Sub(Left, src).rest # src
    /\ result.tag = "Err"

----------------------------------------------------------------------------
(* Fixed repetition *)

\* The outcomes of applying op up to n times, each time to the remainder of
\* the application before, up to and including the first that does not succeed.
RECURSIVE Applications(_, _, _)
Applications(op, s, n) ==
    IF n = 0 THEN <<>>
    ELSE LET res == Sub(op, s)
         IN  IF res.tag = "Ok" THEN <<res>> \o Applications(op, res.rest, n - 1)
             ELSE <<res>>

RECURSIVE CallsOf(_)
CallsOf(apps) == IF apps = <<>> THEN <<>> ELSE Head(apps).calls \o CallsOf(Tail(apps))

\* C5: Repeat(op, n) succeeds iff n successive applications of op succeed,
\* and then returns their matched texts and the last remainder; the first
\* application that fails ends the evaluation, and its failure value is the
\* node's.  Repeat(2) over Literal("x") on "xy" fails with "y".
C5_FixedRepeat ==
    (Called /\ parser.kind = "Repeat") =>
        LET n     == parser.num_repeats
            apps  == Applications(Left, src, n)
            allOk == \A i \in 1..Len(apps) : apps[i].tag = "Ok"
        IN  /\ result.tag = "Ok" <=> allOk
            /\ allOk =>
                   /\ Len(apps) = n
                   /\ result.matched = to_string([i \in 1..n |-> apps[i].matched])
                   /\ result.rest = (IF n = 0 THEN src ELSE apps[n].rest)
            /\ ~allOk => SameResult(result, apps[Len(apps)])
            /\ result.calls = CallsOf(apps)
            /\ (Left = literal(<<"x">>) /\ n = 2 /\ src = <<"x", "y">>) =>
                   result.tag = "Err" /\ result.rest = <<"y">>

\* The second of two applications fails after the first consumed an "x".
C5_Witness ==
    /\ Called
    /\ parser.kind = "Repeat"
    /\ parser.num_repeats = 2
    /\ Left = literal(<<"x">>)
    /\ src = <<"x", "y">>
    /\ result.tag = "Err"
    /\ result.rest = <<"y">>

----------------------------------------------------------------------------
(* Fail *)

\* The message of the Error node that the evaluation of p on s arrives at
\* first, as a set: empty when it arrives at none.  It follows the order in
\* which each kind of node evaluates its operands.
RECURSIVE FirstError(_, _)
RECURSIVE FirstErrorInLoop(_, _, _)

FirstError(p, s) ==
    CASE p.kind = "Error" -> {p.text}
      [] p.kind \in {"Literal", "Regex", "Constant"} -> {}
      [] p.kind \in {"And", "Ignore"} ->
            LET l == Sub(p.subparsers[1], s)
            IN  IF FirstError(p.subparsers[1], s) # {}
                THEN FirstError(p.subparsers[1], s)
                ELSE IF l.tag = "Ok" THEN FirstError(p.subparsers[2], l.rest)
                ELSE {}
      [] p.kind = "Or" ->
            IF FirstError(p.subparsers[1], s) # {}
            THEN FirstError(p.subparsers[1], s)
            ELSE IF Sub(p.subparsers[1], s).tag = "Err"
                 THEN FirstError(p.subparsers[2], s)
                 ELSE {}
      [] p.kind = "Map" -> FirstError(p.subparsers[1], s)
      [] p.kind = "Repeat" -> FirstErrorInLoop(p.subparsers[1], s, p.num_repeats)
      [] p.kind = "RepeatRange" ->
            LET op        == p.subparsers[1]
                mandatory == Sub(repeat(op, p.range.start), s)
            IN  IF FirstErrorInLoop(op, s, p.range.start) # {}
                THEN FirstErrorInLoop(op, s, p.range.start)
                ELSE IF /\ mandatory.tag = "Ok"
                        /\ ~(p.range.end < p.range.start /\ overflow_checks)
                     THEN FirstErrorInLoop(op, mandatory.rest,
                                           WrappingSub(p.range.end, p.range.start))
                     ELSE {}

\* An application that leaves the remainder as it was is followed by the
\* same application, which arrives at nothing new.
FirstErrorInLoop(op, s, n) ==
    IF n = 0 THEN {}
    ELSE IF FirstError(op, s) # {} THEN FirstError(op, s)
    ELSE LET res == Sub(op, s)
         IN  IF res.tag = "Ok" /\ res.rest # s
             THEN FirstErrorInLoop(op, res.rest, n - 1)
             ELSE {}

\* C6: when the evaluation arrives at an Error node, the call of parse
\* panics with that node's message: it returns neither Ok nor Err, also when
\* the node is the left branch of an Or or the operand of a RepeatRange in
\* its optional repetitions.
C6_ErrorIsFatal ==
    (Called /\ FirstError(parser, src) # {}) =>
        /\ result.tag = "Panic"
        /\ result.msg \in FirstError(parser, src)
        /\ result.msg \in Messages

\* An Error node is the left branch of an Or whose right branch would match.
C6_Witness ==
    /\ Called
    /\ parser.kind = "Or"
    /\ Left.kind = "Error"
    /\ Sub(Right, src).tag = "Ok"
    /\ result.tag = "Panic"
    /\ result.msg = Left.text

----------------------------------------------------------------------------
(* Skip *)

\* C8 (as claimed): the matched text of a successful Skip-before or
\* Skip-after node is a contiguous substring of src, whatever its operands.
C8_SkipSubstring ==
    (Called /\ parser.kind = "Ignore" /\ result.tag = "Ok") =>
        IsSubstring(result.matched, src)

\* C8 (amended): a successful Skip-before returns the matched text of r, a
\* successful Skip-after the matched text of l, both with r's remainder; that
\* text is a contiguous substring of src when the operand it comes from is a
\* Literal or a Regex.
C8_SkipKeepsOperandText ==
    (Called /\ parser.kind = "Ignore" /\ result.tag = "Ok") =>
        LET l    == Sub(Left, src)
            r    == Sub(Right, l.rest)
            kept == IF parser.before THEN Right ELSE Left
        IN  /\ l.tag = "Ok"
            /\ r.tag = "Ok"
            /\ result.matched = (IF parser.before THEN r.matched ELSE l.matched)
            /\ result.rest = r.rest
            /\ kept.kind \in {"Literal", "Regex"} => IsSubstring(result.matched, src)

\* Skip-before discards a text that its left operand consumed and returns the
\* text of a Literal.
C8_Witness ==
    /\ Called
    /\ parser.kind = "Ignore"
    /\ parser.before
    /\ Right.kind = "Literal"
    /\ result.tag = "Ok"
    /\ Sub(Left, src).rest # src
    /\ result.matched = Right.text
    /\ result.matched # Sub(Left, src).matched

----------------------------------------------------------------------------
(* Range of bounded repetition *)

\* C9 (as claimed): a successful RepeatRange(min..max) collects at least min
\* and strictly fewer than max matches.
C9_HalfOpenRange ==
    (Called /\ parser.kind = "RepeatRange" /\ result.tag = "Ok") =>
        /\ RonLength(result.matched) >= parser.range.start
        /\ RonLength(result.matched) < parser.range.end

\* C9 (amended): a successful RepeatRange(min..max) collects at least min
\* matches and, when min <= max, at most max: the range includes max.
\* optional() builds the node of repeat_range(0..1) and so collects at most
\* one match.
C9_InclusiveRange ==
    /\ (Called /\ parser.kind = "RepeatRange" /\ result.tag = "Ok") =>
           /\ RonLength(result.matched) >= parser.range.start
           /\ parser.range.start <= parser.range.end =>
                  RonLength(result.matched) <= parser.range.end
    /\ (parser # NoParser /\ parser.kind = "RepeatRange") =>
           optional(Left) = repeat_range(Left, [start |-> 0, end |-> 1])

\* A range that is not empty is filled up to its end.
C9_Witness ==
    /\ Called
    /\ parser.kind = "RepeatRange"
    /\ result.tag = "Ok"
    /\ parser.range.start < parser.range.end
    /\ RonLength(result.matched) = parser.range.end

----------------------------------------------------------------------------
(* Consumption from the front *)

\* C10: for a tree without an Error node, the remainder of a success and the
\* failure value of a failure are suffixes of src.
C10_RemainderIsSuffix ==
    (Returned /\ ~HasError(parser)) => IsSuffix(result.rest, src)

\* A composite fails with a value that is a proper suffix of src.
C10_Witness ==
    /\ Returned
    /\ ~HasError(parser)
    /\ result.tag = "Err"
    /\ result.rest # src
    /\ parser.subparsers # <<>>

----------------------------------------------------------------------------
(* Termination *)

\* C7 (as claimed): a tree without an Error node returns Ok or Err on every
\* input and never aborts the run.
C7_NeverAborts ==
    (Called /\ ~HasError(parser)) => result.tag \in {"Ok", "Err"}

====
